---- MODULE Spec2Model ----
(***************************************************************************)
(* Model of speakerbox/upload-dataset-to-s3.py: the command line entry     *)
(* point (Args, main) and upload_dataset_for_training, with the three      *)
(* collaborators it drives: the local filesystem (training data directory  *)
(* and upload_manifest.jsonl), the git repository and the quilt package    *)
(* store.  One action per statement that calls a collaborator; a call      *)
(* either succeeds or raises, and a raise transfers control to the         *)
(* except clause of upload_dataset_for_training.                           *)
(***************************************************************************)
EXTENDS Integers, Sequences, FiniteSets, TLC

\* Bounds of the environment the program runs in.
MaxContent == 2     \* the training data directory holds one of the contents 0..MaxContent
MaxCommit == 2      \* the repository head is one of the commits 1..MaxCommit

\* Program constants.
PACKAGE_NAME == "speakerbox/training-data"
S3_BUCKET == "s3://evamaxfield-speakerbox"
MANIFEST_NAME == "upload_manifest.jsonl"

\* Values standing for "nothing yet".
NotExited == -1
NoMessage == <<>>
NoHash == <<>>
NoPackage == [contents |-> -1, name |-> "", message |-> NoMessage]
NoException == "none"

VARIABLES
    entry,          \* "cli": run through main(); "direct": the function is called by other code
    argv,           \* the command line flags (cli entry)
    args,           \* the Args namespace: attribute name -> value
    dry_run, force, \* the parameters of upload_dataset_for_training
    invoked,        \* upload_dataset_for_training has been entered
    pc,             \* position in the program
    dir_contents,   \* contents of training-data/diarized
    repo_dirty,     \* git working tree has uncommitted changes
    head_commit,    \* hexsha of the repository head
    package,        \* the quilt Package object bound to `package`
    commit,         \* the local `commit` (0 until read)
    result_hash,    \* top_hash of `built` / `pushed`
    manifest_file,  \* upload_manifest.jsonl in the current working directory
    remote,         \* packages published to the remote store, in order
    calls,          \* collaborator calls made so far, in order
    log,            \* records emitted through `log`
    exc,            \* the exception being propagated
    returned,       \* the value returned by upload_dataset_for_training
    exit_code       \* the process exit status

vars == <<entry, argv, args, dry_run, force, invoked, pc, dir_contents, repo_dirty,
          head_commit, package, commit, result_hash, manifest_file, remote, calls,
          log, exc, returned, exit_code>>

env == <<entry, argv, dir_contents, repo_dirty, head_commit>>

----------------------------------------------------------------------------
\* Helpers

\* Variant: the f prefix is missing, the message is the literal text.
CommitMessage_Literal(c) == <<"From commit: ", 0>>

\* The message attached to a push: f"From commit: {commit}".
CommitMessage(c) == <<"From commit: ", c>>

\* Path("upload_manifest.jsonl").resolve(): absolute path under the working directory.
ResolvedManifestPath == <<"cwd", MANIFEST_NAME>>

\* The top hash of a package.  The hash function belongs to quilt3; it is kept
\* free (injective) over everything a package carries, so that an equality of
\* hashes that holds here holds for any hash function.
TopHash(p) == <<p.message, p.contents>>

\* Variant: the force test is inverted.
MustAbort_Inverted(dirty, f) == dirty /\ f

\* `if repo.is_dirty(): if not force: raise ValueError(...)`
MustAbort(dirty, f) == dirty /\ ~f

\* Variant: the warning is tied to force alone.
WarnNeeded_ForceOnly(dirty, f) == f

\* `if repo.is_dirty(): ... else: log.warning(...)`
WarnNeeded(dirty, f) == dirty /\ f

\* Variant: the two blocks are swapped.
BranchTarget_Swapped(dr) == IF dr THEN "head" ELSE "build"

\* `if dry_run:` selects the build-and-dump block, otherwise the push block.
BranchTarget(dr) == IF dr THEN "build" ELSE "head"

\* Variant: a fresh, empty Package is dumped instead of the built one.
DumpedManifest_Fresh(p) == NoPackage

\* package.dump(manifest_write) serialises the package bound to `package`.
DumpedManifest(p) == p

\* The arguments of package.push.
PushArgs(c) == <<PACKAGE_NAME, S3_BUCKET, CommitMessage(c)>>

\* Variant: only str(e) is logged, the traceback is dropped.
ExceptLog_NoTraceback(e) == <<[level |-> "ERROR", msg |-> "message", val |-> <<e>>]>>

\* The four log.error calls of the except clause: separators aside, the
\* formatted traceback and str(e).
ExceptLog(e) == <<[level |-> "ERROR", msg |-> "traceback", val |-> <<e>>],
                  [level |-> "ERROR", msg |-> "message", val |-> <<e>>]>>

Call(op, ok, arg) == [op |-> op, ok |-> ok, arg |-> arg]
Log(level, msg, val) == [level |-> level, msg |-> msg, val |-> val]

\* Variant: the exception is swallowed and the function returns None.
Raise_Swallowed(e) == /\ exc' = e
                      /\ pc' = "returned"

\* A raise inside the try block: control moves to the except clause.
Raise(e) == /\ exc' = e
            /\ pc' = "except"

----------------------------------------------------------------------------
\* Initial states: the command line or the direct call, and the environment.

Init ==
    /\ entry \in {"cli", "direct"}
    /\ argv \in SUBSET {"--dry-run", "--force"}
    /\ entry = "direct" => argv = {}
    /\ args = [a \in {} |-> FALSE]
    /\ dry_run \in BOOLEAN
    /\ force \in BOOLEAN
    /\ entry = "cli" => (dry_run = FALSE /\ force = FALSE)
    /\ invoked = FALSE
    /\ pc = IF entry = "cli" THEN "parse" ELSE "call"
    /\ dir_contents \in 0..MaxContent
    /\ repo_dirty \in BOOLEAN
    /\ head_commit \in 1..MaxCommit
    /\ package = NoPackage
    /\ commit = 0
    /\ result_hash = NoHash
    /\ manifest_file \in {[state |-> "absent", path |-> ResolvedManifestPath, data |-> NoPackage],
                          [state |-> "stale", path |-> ResolvedManifestPath, data |-> NoPackage]}
    /\ remote = <<>>
    /\ calls = <<>>
    /\ log = <<>>
    /\ exc = NoException
    /\ returned = NoHash
    /\ exit_code = NotExited

----------------------------------------------------------------------------
\* Args.__parse: the parser knows --dry-run (store_true) only; any other
\* flag makes argparse exit with status 2.
ParsedNamespace(av) == [a \in {"dry_run"} |-> ("--dry-run" \in av)]

ParseArgs ==
    /\ pc = "parse"
    /\ IF argv \subseteq {"--dry-run"}
       THEN /\ args' = ParsedNamespace(argv)
            /\ pc' = "main"
            /\ UNCHANGED exit_code
       ELSE /\ pc' = "exited"
            /\ exit_code' = 2
            /\ UNCHANGED args
    /\ UNCHANGED <<env, dry_run, force, invoked, package, commit, result_hash,
                   manifest_file, remote, calls, log, exc, returned>>

\* main: reads args.dry_run and args.force and calls the function.  Reading
\* an attribute the namespace does not have raises AttributeError outside any
\* try block: the interpreter prints the traceback and exits with status 1.
Main ==
    /\ pc = "main"
    /\ IF {"dry_run", "force"} \subseteq DOMAIN args
       THEN /\ dry_run' = args["dry_run"]
            /\ force' = args["force"]
            /\ pc' = "call"
            /\ UNCHANGED <<exc, exit_code>>
       ELSE /\ exc' = "AttributeError"
            /\ pc' = "exited"
            /\ exit_code' = 1
            /\ UNCHANGED <<dry_run, force>>
    /\ UNCHANGED <<env, args, invoked, package, commit, result_hash,
                   manifest_file, remote, calls, log, returned>>

----------------------------------------------------------------------------
\* upload_dataset_for_training

\* Entering the function: the first log line.
Enter ==
    /\ pc = "call"
    /\ invoked' = TRUE
    /\ log' = Append(log, Log("INFO", "using_dirs", NoHash))
    /\ pc' = "set_dir"
    /\ UNCHANGED <<env, args, dry_run, force, package, commit, result_hash,
                   manifest_file, remote, calls, exc, returned, exit_code>>

\* package = Package(); package.set_dir(dir.name, dir); log the contents.
SetDir ==
    /\ pc = "set_dir"
    /\ \E ok \in BOOLEAN :
        /\ calls' = Append(calls, Call("set_dir", ok, <<>>))
        /\ IF ok
           THEN /\ package' = [contents |-> dir_contents, name |-> "", message |-> NoMessage]
                /\ log' = Append(log, Log("INFO", "package_contents", NoHash))
                /\ pc' = "repo"
                /\ UNCHANGED exc
           ELSE /\ Raise("set_dir")
                /\ UNCHANGED <<package, log>>
    /\ UNCHANGED <<env, args, dry_run, force, invoked, commit, result_hash,
                   manifest_file, remote, returned, exit_code>>

\* repo = git.Repo(search_parent_directories=True)
OpenRepo ==
    /\ pc = "repo"
    /\ \E ok \in BOOLEAN :
        /\ calls' = Append(calls, Call("Repo", ok, <<>>))
        /\ IF ok
           THEN /\ pc' = "is_dirty"
                /\ UNCHANGED exc
           ELSE Raise("Repo")
    /\ UNCHANGED <<env, args, dry_run, force, invoked, package, commit, result_hash,
                   manifest_file, remote, log, returned, exit_code>>

\* if repo.is_dirty(): raise ValueError unless force, else warn.
CheckDirty ==
    /\ pc = "is_dirty"
    /\ \E ok \in BOOLEAN :
        /\ calls' = Append(calls, Call("is_dirty", ok, <<>>))
        /\ IF ~ok
           THEN /\ Raise("is_dirty")
                /\ UNCHANGED log
           ELSE IF MustAbort(repo_dirty, force)
           THEN /\ Raise("ValueError")
                /\ UNCHANGED log
           ELSE IF WarnNeeded(repo_dirty, force)
           THEN /\ log' = Append(log, Log("WARNING", "dirty_but_forced", NoHash))
                /\ pc' = "branch"
                /\ UNCHANGED exc
           ELSE /\ pc' = "branch"
                /\ UNCHANGED <<log, exc>>
    /\ UNCHANGED <<env, args, dry_run, force, invoked, package, commit, result_hash,
                   manifest_file, remote, returned, exit_code>>

\* if dry_run: ... else: ...
Branch ==
    /\ pc = "branch"
    /\ pc' = BranchTarget(dry_run)
    /\ UNCHANGED <<env, args, dry_run, force, invoked, package, commit, result_hash,
                   manifest_file, remote, calls, log, exc, returned, exit_code>>

\* built = package.build(PACKAGE_NAME): finalises the package in the local
\* registry under the name, with no message; `built` exposes its top hash.
Build ==
    /\ pc = "build"
    /\ \E ok \in BOOLEAN :
        /\ calls' = Append(calls, Call("build", ok, <<PACKAGE_NAME>>))
        /\ IF ok
           THEN /\ package' = [package EXCEPT !.name = PACKAGE_NAME]
                /\ result_hash' = TopHash(package')
                /\ pc' = "open"
                /\ UNCHANGED exc
           ELSE /\ Raise("build")
                /\ UNCHANGED <<package, result_hash>>
    /\ UNCHANGED <<env, args, dry_run, force, invoked, commit,
                   manifest_file, remote, log, returned, exit_code>>

\* manifest_save_path = Path(...).resolve(); open(manifest_save_path, "w"):
\* a successful open truncates the file.
OpenManifest ==
    /\ pc = "open"
    /\ \E ok \in BOOLEAN :
        /\ calls' = Append(calls, Call("open", ok, ResolvedManifestPath))
        /\ IF ok
           THEN /\ manifest_file' = [state |-> "truncated", path |-> ResolvedManifestPath,
                                     data |-> NoPackage]
                /\ pc' = "dump"
                /\ UNCHANGED exc
           ELSE /\ Raise("open")
                /\ UNCHANGED manifest_file
    /\ UNCHANGED <<env, args, dry_run, force, invoked, package, commit, result_hash,
                   remote, log, returned, exit_code>>

\* package.dump(manifest_write), then the file is closed.
DumpManifest ==
    /\ pc = "dump"
    /\ \E ok \in BOOLEAN :
        /\ calls' = Append(calls, Call("dump", ok, <<>>))
        /\ IF ok
           THEN /\ manifest_file' = [manifest_file EXCEPT !.state = "written", !.data = DumpedManifest(package)]
                /\ pc' = "dry_done"
                /\ UNCHANGED exc
           ELSE /\ Raise("dump")
                /\ UNCHANGED manifest_file
    /\ UNCHANGED <<env, args, dry_run, force, invoked, package, commit, result_hash,
                   remote, log, returned, exit_code>>

\* The two log lines of the dry run and `return built.top_hash`.
ReturnDryRun ==
    /\ pc = "dry_done"
    /\ log' = log \o <<Log("INFO", "manifest_stored_to", manifest_file.path),
                       Log("INFO", "dry_run_hash", result_hash)>>
    /\ returned' = result_hash
    /\ pc' = "returned"
    /\ exit_code' = IF entry = "cli" THEN 0 ELSE exit_code
    /\ UNCHANGED <<env, args, dry_run, force, invoked, package, commit, result_hash,
                   manifest_file, remote, calls, exc>>

\* commit = repo.head.object.hexsha
ReadHead ==
    /\ pc = "head"
    /\ \E ok \in BOOLEAN :
        /\ calls' = Append(calls, Call("head", ok, <<>>))
        /\ IF ok
           THEN /\ commit' = head_commit
                /\ pc' = "push"
                /\ UNCHANGED exc
           ELSE /\ Raise("head")
                /\ UNCHANGED commit
    /\ UNCHANGED <<env, args, dry_run, force, invoked, package, result_hash,
                   manifest_file, remote, log, returned, exit_code>>

\* pushed = package.push(PACKAGE_NAME, "s3://evamaxfield-speakerbox",
\*                       message=f"From commit: {commit}")
PushedPackage(p, c) == [contents |-> p.contents, name |-> PushArgs(c)[1],
                        message |-> PushArgs(c)[3]]

Push ==
    /\ pc = "push"
    /\ \E ok \in BOOLEAN :
        /\ calls' = Append(calls, Call("push", ok, PushArgs(commit)))
        /\ IF ok
           THEN /\ remote' = Append(remote, [dest |-> PushArgs(commit)[2],
                                             pkg |-> PushedPackage(package, commit)])
                /\ result_hash' = TopHash(PushedPackage(package, commit))
                /\ pc' = "push_done"
                /\ UNCHANGED exc
           ELSE /\ Raise("push")
                /\ UNCHANGED <<remote, result_hash>>
    /\ UNCHANGED <<env, args, dry_run, force, invoked, package, commit,
                   manifest_file, log, returned, exit_code>>

\* The log line of the push and `return pushed.top_hash`.
ReturnPush ==
    /\ pc = "push_done"
    /\ log' = Append(log, Log("INFO", "push_hash", result_hash))
    /\ returned' = result_hash
    /\ pc' = "returned"
    /\ exit_code' = IF entry = "cli" THEN 0 ELSE exit_code
    /\ UNCHANGED <<env, args, dry_run, force, invoked, package, commit, result_hash,
                   manifest_file, remote, calls, exc>>

\* except Exception as e: log the traceback and the message, sys.exit(1).
Except ==
    /\ pc = "except"
    /\ log' = log \o ExceptLog(exc)
    /\ exit_code' = 1
    /\ pc' = "exited"
    /\ UNCHANGED <<env, args, dry_run, force, invoked, package, commit, result_hash,
                   manifest_file, remote, calls, exc, returned>>

----------------------------------------------------------------------------
Next ==
    \/ ParseArgs
    \/ Main
    \/ Enter
    \/ SetDir
    \/ OpenRepo
    \/ CheckDirty
    \/ Branch
    \/ Build
    \/ OpenManifest
    \/ DumpManifest
    \/ ReturnDryRun
    \/ ReadHead
    \/ Push
    \/ ReturnPush
    \/ Except

Spec == Init /\ [][Next]_vars

\* Every step of the program is eventually taken: the program is sequential
\* and nothing in it waits.
FairSpec == Spec /\ WF_vars(Next)

Terminated == pc \in {"returned", "exited"}

TypeOK ==
    /\ entry \in {"cli", "direct"}
    /\ dry_run \in BOOLEAN /\ force \in BOOLEAN /\ invoked \in BOOLEAN
    /\ exit_code \in {NotExited, 0, 1, 2}
    /\ commit \in 0..MaxCommit
    /\ Len(remote) <= 1
----------------------------------------------------------------------------
\* Vocabulary of the properties

CallIdx == 1..Len(calls)
Attempted(op) == \E i \in CallIdx : calls[i].op = op
Succeeded(op) == \E i \in CallIdx : calls[i].op = op /\ calls[i].ok
Failed(op) == \E i \in CallIdx : calls[i].op = op /\ ~calls[i].ok
AnyCallFailed == \E i \in CallIdx : ~calls[i].ok
Logged(level, msg) == \E i \in 1..Len(log) : log[i].level = level /\ log[i].msg = msg
LoggedVal(msg, val) == \E i \in 1..Len(log) : log[i].msg = msg /\ log[i].val = val
ManifestUntouched == manifest_file.state \in {"absent", "stale"}
PushCompleted == Len(remote) > 0

----------------------------------------------------------------------------
\* C1: an invocation with a dirty working tree and force false, in either
\* mode, never opens or writes upload_manifest.jsonl, never pushes, never
\* returns, and when it has ended it has exited with status 1.
C1_DirtyUnforcedAborts ==
    (invoked /\ repo_dirty /\ ~force) =>
        /\ ManifestUntouched
        /\ ~Attempted("open")
        /\ ~Attempted("push")
        /\ ~PushCompleted
        /\ pc # "returned"
        /\ (Terminated => (pc = "exited" /\ exit_code = 1))

C1_Witness ==
    /\ invoked /\ repo_dirty /\ ~force /\ dry_run
    /\ pc = "exited" /\ exc = "ValueError" /\ exit_code = 1

----------------------------------------------------------------------------
\* C2 (as stated): a dry run never pushes, and an invocation that is not a
\* dry run has always attempted a push by the time it ends.
C2_Original ==
    invoked =>
        /\ (dry_run => ~Attempted("push"))
        /\ ((~dry_run /\ Terminated) => Attempted("push"))

\* The steps that precede the push have all gone through.
PushPreconditionsMet ==
    /\ Succeeded("set_dir") /\ Succeeded("Repo") /\ Succeeded("is_dirty")
    /\ (repo_dirty => force)
    /\ Succeeded("head")

\* C2 (amended): a dry run never pushes; an invocation that is not a dry run
\* has attempted a push when it ends exactly if the package was assembled,
\* the repository opened and queried, the tree was clean or force was set,
\* and the head commit was read.
C2_PushOnlyOutsideDryRun ==
    invoked =>
        /\ (dry_run => (~Attempted("push") /\ ~PushCompleted))
        /\ ((~dry_run /\ Terminated) => (Attempted("push") <=> PushPreconditionsMet))

C2_Witness ==
    /\ invoked /\ ~dry_run /\ Terminated
    /\ PushPreconditionsMet /\ Attempted("push")

----------------------------------------------------------------------------
\* The run through main() succeeds: the tree is clean and no collaborator
\* call has failed.
CliRunSucceeds == ~repo_dirty /\ ~AnyCallFailed

\* C3: through the command line entry point, with an accepted command line,
\* the exit status is 0 when the run succeeds and 1 when it fails.
C3_CliExitCodes ==
    (entry = "cli" /\ argv \subseteq {"--dry-run"} /\ Terminated) =>
        /\ (CliRunSucceeds => exit_code = 0)
        /\ (~CliRunSucceeds => exit_code = 1)

----------------------------------------------------------------------------
\* C4: a failed step is the last collaborator call of the invocation and
\* control is in the except clause or past it; an invocation that has exited
\* has logged the traceback, exited with status 1 and published nothing.
C4_FailureIsFatal ==
    /\ \A i \in CallIdx : ~calls[i].ok =>
        /\ i = Len(calls)
        /\ pc \in {"except", "exited"}
        /\ exc = calls[i].op
        /\ ~PushCompleted
    /\ (invoked /\ pc = "exited") =>
        /\ exit_code = 1
        /\ Logged("ERROR", "traceback")
        /\ ~PushCompleted
        /\ returned = NoHash

C4_Witness ==
    /\ pc = "exited" /\ Failed("push") /\ exit_code = 1
    /\ Logged("ERROR", "traceback")

----------------------------------------------------------------------------
\* The working tree check let the invocation through.
PassedCheck == Succeeded("is_dirty") /\ (repo_dirty => force)

\* C5: an invocation that passes the working tree check goes on to the
\* dry-run/push branch, the same for a dirty tree with force as for a clean
\* tree: the call that follows the check is the build in a dry run and the
\* head commit read otherwise, and a run that ends without a failed call has
\* written the manifest in a dry run and pushed otherwise.  The warning is
\* logged exactly when the tree was dirty.
C5_ForceProceedsWithWarning ==
    (invoked /\ PassedCheck) =>
        /\ pc \notin {"is_dirty", "except"} \/ AnyCallFailed
        /\ \A i \in CallIdx : (calls[i].op = "is_dirty" /\ i < Len(calls)) =>
              calls[i + 1].op = (IF dry_run THEN "build" ELSE "head")
        /\ (Terminated /\ ~AnyCallFailed) =>
              IF dry_run THEN manifest_file.state = "written" /\ ~Attempted("push")
                         ELSE PushCompleted /\ ManifestUntouched
        /\ (Logged("WARNING", "dirty_but_forced") <=> repo_dirty)

C5_Witness ==
    /\ invoked /\ repo_dirty /\ force /\ dry_run
    /\ pc = "returned" /\ manifest_file.state = "written"
    /\ Logged("WARNING", "dirty_but_forced")

----------------------------------------------------------------------------
\* C6: a dry run that has returned has written upload_manifest.jsonl, at the
\* absolute path under the working directory, with the manifest of the
\* package built under the fixed name from the directory contents; the top
\* hash of the package in the manifest is the hash logged and the hash
\* returned.
C6_DryRunManifestMatchesHash ==
    (invoked /\ dry_run /\ pc = "returned") =>
        /\ manifest_file.state = "written"
        /\ manifest_file.path = <<"cwd", "upload_manifest.jsonl">>
        /\ manifest_file.data = [contents |-> dir_contents,
                                 name |-> "speakerbox/training-data",
                                 message |-> NoMessage]
        /\ TopHash(manifest_file.data) = returned
        /\ LoggedVal("dry_run_hash", returned)
        /\ LoggedVal("manifest_stored_to", <<"cwd", "upload_manifest.jsonl">>)
        /\ returned # NoHash

C6_Witness ==
    /\ invoked /\ dry_run /\ pc = "returned"
    /\ manifest_file.state = "written" /\ dir_contents = 1

----------------------------------------------------------------------------
\* C9: outside a dry run, a push comes after a successful working tree check
\* and a later successful read of the head commit, and is made under the
\* fixed name to the fixed location with the message of that commit; what
\* the store then holds carries the same.  A dry run never reads the head
\* commit.
C9_PushOrderAndProvenance ==
    invoked =>
        /\ \A k \in CallIdx : calls[k].op = "push" =>
              /\ ~dry_run
              /\ \E i, j \in CallIdx :
                    /\ i < j /\ j < k
                    /\ calls[i].op = "is_dirty" /\ calls[i].ok
                    /\ calls[j].op = "head" /\ calls[j].ok
              /\ commit = head_commit
              /\ calls[k].arg = <<"speakerbox/training-data", "s3://evamaxfield-speakerbox",
                                  <<"From commit: ", head_commit>>>>
        /\ \A r \in 1..Len(remote) :
              /\ remote[r].dest = "s3://evamaxfield-speakerbox"
              /\ remote[r].pkg.name = "speakerbox/training-data"
              /\ remote[r].pkg.message = <<"From commit: ", head_commit>>
              /\ remote[r].pkg.contents = dir_contents
        /\ (dry_run => (~Attempted("head") /\ commit = 0))

C9_Witness ==
    /\ invoked /\ ~dry_run /\ PushCompleted /\ head_commit = 2
    /\ pc = "returned"

----------------------------------------------------------------------------
\* C10 (state part): an invocation that has ended has either returned a hash
\* or exited with status 1, never both and never neither; the manifest is
\* touched only in a dry run and a push attempted only outside one, so at
\* most one of the two happens; a hash is returned only once the manifest is
\* written (dry run) or the push has completed (otherwise).
C10_Outcome ==
    invoked =>
        /\ Terminated =>
              \/ (pc = "returned" /\ returned # NoHash /\ exit_code # 1)
              \/ (pc = "exited" /\ returned = NoHash /\ exit_code = 1)
        /\ (~ManifestUntouched \/ Attempted("open")) => dry_run
        /\ (Attempted("push") \/ PushCompleted) => ~dry_run
        /\ ~(Attempted("open") /\ Attempted("push"))
        /\ Len(remote) <= 1
        /\ returned # NoHash =>
              IF dry_run THEN manifest_file.state = "written" /\ Succeeded("dump")
                         ELSE PushCompleted /\ Succeeded("push")

\* C10: every invocation ends, and ends in one of the two outcomes with at
\* most the side effect of its mode.
C10_TerminatesInOneOutcome == [](C10_Outcome) /\ (invoked ~> Terminated)

C10_Witness ==
    /\ invoked /\ ~dry_run /\ pc = "returned"
    /\ returned # NoHash /\ PushCompleted /\ ManifestUntouched

----------------------------------------------------------------------------
\* C8: after parsing an accepted command line the namespace defines both
\* dry_run and force as booleans, dry_run being set exactly by --dry-run.
C8_NamespaceHasBothFlags ==
    (entry = "cli" /\ pc = "main") =>
        /\ {"dry_run", "force"} \subseteq DOMAIN args
        /\ \A a \in DOMAIN args : args[a] \in BOOLEAN
        /\ args["dry_run"] = ("--dry-run" \in argv)
====
